---- MODULE Spec2Model ----
(***************************************************************************)
(* State-machine model of src/app.py, a Streamlit script.  Every user      *)
(* interaction re-executes the whole script top to bottom; an action of    *)
(* this model is one such pass (one widget event followed by the rerun).   *)
(*                                                                         *)
(* Four specifications share the module:                                   *)
(*   Spec        the filter pass (lines 190-244 and 333-355) over a loaded *)
(*               feature collection and a tabular dataset with all columns *)
(*   SpecTab     the same pass, the tabular dataset's column set varying   *)
(*   SpecLoad    the loading section (lines 24-34, 159-176) and the page   *)
(*               each pass leaves behind                                   *)
(*   SpecCsv     the trial loop of load_csv (lines 36-67)                  *)
(***************************************************************************)
EXTENDS Integers, Sequences, FiniteSets

VARIABLES
    gdf,                \* the loaded feature collection (line 163), a sequence of rows
    df_csv,             \* the tabular dataset (line 172): [loaded, cols, rows]
    tipo_dado,          \* st.session_state.tipo_dado (lines 143, 190)
    widgets,            \* state of the keyless selectboxes rendered by the last pass
    selected_uf,        \* line 201 / 208 / 234
    selected_empresa,   \* line 202 / 214 / 220
    selected_fazenda,   \* line 203 / 224
    selected_municipio, \* line 204 / 238
    gdf_filtered,       \* line 199 and the branches below it
    df_filtered_csv,    \* line 334 and the branches below it
    err,                \* the pass was aborted by an uncaught exception
    event,              \* the widget event that triggered the last pass
    geoFile,            \* Shape/Geo.shp on disk
    csvFile,            \* Dados.csv on disk
    shpCache,           \* st.cache_data entry of load_shapefile(GEO_PATH)
    csvCache,           \* st.cache_data entry of load_csv(CSV_PATH)
    page,               \* what the last pass left on the page
    trials,             \* load_csv: what pd.read_csv does per (encoding, sep)
    stage,              \* load_csv: called or not yet
    result              \* load_csv: the returned value

filterVars == <<gdf, df_csv, tipo_dado, widgets, selected_uf, selected_empresa,
                selected_fazenda, selected_municipio, gdf_filtered,
                df_filtered_csv, err, event>>
loadVars == <<geoFile, csvFile, shpCache, csvCache, page>>
csvVars == <<trials, stage, result>>
vars == <<filterVars, loadVars, csvVars>>

----------------------------------------------------------------------------
(* Bounds of the model.                                                    *)

\* rows per dataset
MaxRows == 2
\* attribute values are NULL and 0..MaxVal
MaxVal == 2

----------------------------------------------------------------------------
(* Attribute values.  NULL is Python's None.  0 stands for a value that is *)
(* not None but falsy in Python (the number 0, the empty string); the      *)
(* values 1..MaxVal are truthy.  Integers give sorted() its order.         *)

NULL == -1

Values == {NULL} \cup (0 .. MaxVal)

\* `if selected_empresa:` (line 222), `if selected_uf:` (line 236) and the
\* `and selected_uf` terms of lines 337-350: Python truthiness.
Truthy(v) == v # NULL /\ v # 0

Attrs == {"UF", "MUNICIPIO", "EMPRESA", "FAZENDA"}

Rows == [Attrs -> Values]

\* The options of the `Tipo de Dado` selectbox (line 192).
Modes == {"Todos os Dados", "Dados por Estado", "Dados por Empresa",
          "Dados Empresa/Fazenda", "Dados por Municipio"}

\* The labels of the four keyless selectboxes (lines 208/234, 214/220, 224, 238).
Labels == {"Selecione UF", "Selecione Empresa", "Selecione Fazenda",
           "Selecione Municipio"}

----------------------------------------------------------------------------
(* pandas and Python helpers used by the filter pass.                      *)

\* df[col].unique(): the distinct values of a column.
Unique(df, col) == {df[i][col] : i \in DOMAIN df}

\* sorted(xs) raises TypeError when it has to compare None with a value.
SortRaises(S) == NULL \in S /\ Cardinality(S) > 1

RECURSIVE SortedAsc(_)
\* sorted(xs) of distinct values, ascending.
SortedAsc(S) ==
    IF S = {} THEN <<>>
    ELSE LET m == CHOOSE x \in S : \A y \in S : x <= y
         IN <<m>> \o SortedAsc(S \ {m})

\* One element of `series == value`: pandas compares elementwise and a
\* comparison with None is False for every element.
Eq(x, v) == v # NULL /\ x = v

\* df[df[col] == v]
Where(df, col, v) == SelectSeq(df, LAMBDA r : Eq(r[col], v))

\* df[(df[c1] == v1) & (df[c2] == v2)]
Where2(df, c1, v1, c2, v2) ==
    SelectSeq(df, LAMBDA r : Eq(r[c1], v1) /\ Eq(r[c2], v2))

----------------------------------------------------------------------------
(* Streamlit's keyless selectboxes.  A widget without a key is identified  *)
(* by its label and its option list; its state lives as long as every pass *)
(* renders it, and a widget that is new in a pass starts at index 0.       *)

NoWidget == [shown |-> FALSE, opts |-> <<>>, val |-> NULL]

NoWidgets == [l \in Labels |-> NoWidget]

Rendered(opts, val) == [shown |-> TRUE, opts |-> opts, val |-> val]

\* A selectbox that keeps the stored value although its options changed.
selectboxStale(label, options, store) ==
    IF options = <<>> THEN NULL
    ELSE IF store[label].shown THEN store[label].val
    ELSE options[1]

\* st.sidebar.selectbox(label, options): None for an empty option list, the
\* user's choice when the same widget was on the page, else options[0].
selectbox(label, options, store) ==
    IF options = <<>> THEN NULL
    ELSE IF store[label].shown /\ store[label].opts = options
         THEN store[label].val
         ELSE options[1]

----------------------------------------------------------------------------
(* The filter pass, lines 199-244.                                         *)

\* Child values taken from every row, whatever its parent.
child_values_all(g, pcol, p, ccol) == Unique(g, ccol)

\* gdf[gdf[pcol] == p][ccol].unique() (lines 223, 237)
child_values(g, pcol, p, ccol) == Unique(Where(g, pcol, p), ccol)

\* What a pass leaves: the four selections, the view, the widgets rendered.
Out(e, uf, emp, faz, mun, view, w) ==
    [err |-> e, uf |-> uf, empresa |-> emp, fazenda |-> faz,
     municipio |-> mun, view |-> view, widgets |-> w]

\* Lines 206-210 and 212-216: one selectbox over a column, then the filter.
\* Returns [err, sel, view, w].
one_level(g, col, label, store) ==
    LET s == Unique(g, col)
    IN IF SortRaises(s)
       THEN [err |-> TRUE, sel |-> NULL, child |-> NULL, view |-> g,
             w |-> NoWidgets]
       ELSE LET opts == SortedAsc(s)
                sel == selectbox(label, opts, store)
            IN [err |-> FALSE, sel |-> sel, child |-> NULL,
                view |-> Where(g, col, sel),
                w |-> [NoWidgets EXCEPT ![label] = Rendered(opts, sel)]]

\* Lines 218-230 and 232-244: the parent selectbox, and under a truthy
\* parent the child selectbox and the two-term filter.  With a falsy parent
\* gdf_filtered keeps the copy of gdf made at line 199.
two_level(g, pcol, plabel, ccol, clabel, store) ==
    LET ps == Unique(g, pcol)
    IN IF SortRaises(ps)
       THEN [err |-> TRUE, sel |-> NULL, child |-> NULL, view |-> g,
             w |-> NoWidgets]
       ELSE LET popts == SortedAsc(ps)
                p == selectbox(plabel, popts, store)
                wp == [NoWidgets EXCEPT ![plabel] = Rendered(popts, p)]
                cs == child_values(g, pcol, p, ccol)
            IN IF ~Truthy(p)
               THEN [err |-> FALSE, sel |-> p, child |-> NULL, view |-> g,
                     w |-> wp]
               ELSE IF SortRaises(cs)
               THEN [err |-> TRUE, sel |-> p, child |-> NULL, view |-> g,
                     w |-> wp]
               ELSE LET copts == SortedAsc(cs)
                        c == selectbox(clabel, copts, store)
                    IN [err |-> FALSE, sel |-> p, child |-> c,
                        view |-> Where2(g, pcol, p, ccol, c),
                        w |-> [wp EXCEPT ![clabel] = Rendered(copts, c)]]

\* Lines 199-244.
filter_pass(g, tipo, store) ==
    CASE tipo = "Dados por Estado" ->
            LET r == one_level(g, "UF", "Selecione UF", store)
            IN Out(r.err, r.sel, NULL, NULL, NULL, r.view, r.w)
      [] tipo = "Dados por Empresa" ->
            LET r == one_level(g, "EMPRESA", "Selecione Empresa", store)
            IN Out(r.err, NULL, r.sel, NULL, NULL, r.view, r.w)
      [] tipo = "Dados Empresa/Fazenda" ->
            LET r == two_level(g, "EMPRESA", "Selecione Empresa",
                               "FAZENDA", "Selecione Fazenda", store)
            IN Out(r.err, NULL, r.sel, r.child, NULL, r.view, r.w)
      [] tipo = "Dados por Municipio" ->
            LET r == two_level(g, "UF", "Selecione UF",
                               "MUNICIPIO", "Selecione Municipio", store)
            IN Out(r.err, r.sel, NULL, NULL, r.child, r.view, r.w)
      [] OTHER -> Out(FALSE, NULL, NULL, NULL, NULL, g, NoWidgets)

\* Lines 333-355: the tabular view of tab 4.
csv_filter(csv, tipo, uf, emp, faz, mun) ==
    IF ~csv.loaded THEN <<>>
    ELSE CASE tipo = "Dados por Estado" /\ Truthy(uf) /\ "UF" \in csv.cols ->
                Where(csv.rows, "UF", uf)
           [] tipo = "Dados por Empresa" /\ Truthy(emp)
                /\ "EMPRESA" \in csv.cols ->
                Where(csv.rows, "EMPRESA", emp)
           [] tipo = "Dados Empresa/Fazenda" /\ Truthy(emp) /\ Truthy(faz) ->
                IF "EMPRESA" \in csv.cols /\ "FAZENDA" \in csv.cols
                THEN Where2(csv.rows, "EMPRESA", emp, "FAZENDA", faz)
                ELSE csv.rows
           [] tipo = "Dados por Municipio" /\ Truthy(uf) /\ Truthy(mun) ->
                IF "UF" \in csv.cols /\ "MUNICIPIO" \in csv.cols
                THEN Where2(csv.rows, "UF", uf, "MUNICIPIO", mun)
                ELSE csv.rows
           [] OTHER -> csv.rows

\* One pass of the script from line 190 on, for the widget state `store`.
\* An exception in the sidebar ends the pass before the tabs are built.
Pass(tipo, store, ev) ==
    LET o == filter_pass(gdf, tipo, store)
    IN /\ tipo_dado' = tipo
       /\ widgets' = o.widgets
       /\ selected_uf' = o.uf
       /\ selected_empresa' = o.empresa
       /\ selected_fazenda' = o.fazenda
       /\ selected_municipio' = o.municipio
       /\ gdf_filtered' = o.view
       /\ err' = o.err
       /\ df_filtered_csv' =
             IF o.err THEN <<>>
             ELSE csv_filter(df_csv, tipo, o.uf, o.empresa, o.fazenda,
                             o.municipio)
       /\ event' = ev
       /\ UNCHANGED <<gdf, df_csv, loadVars, csvVars>>

\* The user picks another entry of `Tipo de Dado` (line 190).
ChangeTipoDado ==
    \E m \in Modes \ {tipo_dado} : Pass(m, widgets, "Tipo de Dado")

\* The user picks another option of a selectbox that is on the page.
ChangeSelect ==
    \E l \in Labels :
        /\ widgets[l].shown
        /\ \E i \in DOMAIN widgets[l].opts :
              /\ widgets[l].opts[i] # widgets[l].val
              /\ Pass(tipo_dado,
                      [widgets EXCEPT ![l].val = widgets[l].opts[i]], l)

\* Any other interaction (the map, a tab) reruns the script unchanged.
Rerun == Pass(tipo_dado, widgets, "rerun")

----------------------------------------------------------------------------
(* The filter specifications.                                              *)

\* The variables of the other sections, parked.
LoadIdle ==
    /\ geoFile = "idle" /\ csvFile = "idle"
    /\ shpCache = "idle" /\ csvCache = "idle" /\ page = "idle"

CsvIdle == trials = <<>> /\ stage = "idle" /\ result = "idle"

\* A row that varies the attributes of one hierarchy and holds the other's
\* at 1 (the two hierarchies are filtered by disjoint branches of the pass),
\* and a row that varies both, EMPRESA/FAZENDA mirroring UF/MUNICIPIO.
RowUF(pc) == [UF |-> pc[1], MUNICIPIO |-> pc[2], EMPRESA |-> 1, FAZENDA |-> 1]

RowEmpresa(pc) == [UF |-> 1, MUNICIPIO |-> 1, EMPRESA |-> pc[1], FAZENDA |-> pc[2]]

RowBoth(pc) ==
    [UF |-> pc[1], MUNICIPIO |-> pc[2], EMPRESA |-> pc[2], FAZENDA |-> pc[1]]

PairLeq(a, b) == a[1] < b[1] \/ (a[1] = b[1] /\ a[2] <= b[2])

\* Up to MaxRows (parent, child) pairs, listed in non-decreasing order: the
\* pass reads the collection through unique(), sorted() and boolean masks
\* only, none of which depends on the order of the rows.
PairSeqs ==
    {s \in UNION {[1 .. n -> Values \X Values] : n \in 0 .. MaxRows} :
        \A i \in 1 .. (Len(s) - 1) : PairLeq(s[i], s[i + 1])}

\* The feature collections a load may deliver.
GeoInputs ==
    {[i \in DOMAIN s |-> RowUF(s[i])] : s \in PairSeqs}
        \cup {[i \in DOMAIN s |-> RowEmpresa(s[i])] : s \in PairSeqs}
        \cup {[i \in DOMAIN s |-> RowBoth(s[i])] : s \in PairSeqs}

\* The state after the session's first pass (init_session_state, lines
\* 140-151, sets tipo_dado to 'Todos os Dados'; no selectbox is rendered).
FirstPass(g, csv) ==
    /\ gdf = g
    /\ df_csv = csv
    /\ tipo_dado = "Todos os Dados"
    /\ widgets = NoWidgets
    /\ selected_uf = NULL
    /\ selected_empresa = NULL
    /\ selected_fazenda = NULL
    /\ selected_municipio = NULL
    /\ gdf_filtered = g
    /\ df_filtered_csv = csv_filter(csv, "Todos os Dados", NULL, NULL, NULL, NULL)
    /\ err = FALSE
    /\ event = "start"
    /\ LoadIdle
    /\ CsvIdle

\* Dados.csv missing or unreadable: df_csv is None (lines 170-176).
NoCsv == [loaded |-> FALSE, cols |-> {}, rows |-> <<>>]

\* The tabular dataset holds the records of the features, with all columns.
Init ==
    \E g \in GeoInputs :
        FirstPass(g, [loaded |-> TRUE, cols |-> Attrs, rows |-> g])

Next == ChangeTipoDado \/ ChangeSelect \/ Rerun

Spec == Init /\ [][Next]_vars

\* The tabular dataset is missing, or holds the records of the features
\* under any column set.
InitTab ==
    \E g \in GeoInputs :
        \/ FirstPass(g, NoCsv)
        \/ \E cols \in SUBSET Attrs :
              FirstPass(g, [loaded |-> TRUE, cols |-> cols, rows |-> g])

SpecTab == InitTab /\ [][Next]_vars

----------------------------------------------------------------------------
(* Vocabulary of the claims about the filter pass.                         *)

TwoLevel == tipo_dado \in {"Dados Empresa/Fazenda", "Dados por Municipio"}

ParentCol == IF tipo_dado = "Dados Empresa/Fazenda" THEN "EMPRESA" ELSE "UF"

ChildCol == IF tipo_dado = "Dados Empresa/Fazenda" THEN "FAZENDA" ELSE "MUNICIPIO"

ParentSel ==
    IF tipo_dado = "Dados Empresa/Fazenda" THEN selected_empresa ELSE selected_uf

ChildSel ==
    IF tipo_dado = "Dados Empresa/Fazenda" THEN selected_fazenda
    ELSE selected_municipio

ParentLabel ==
    IF tipo_dado = "Dados Empresa/Fazenda" THEN "Selecione Empresa"
    ELSE "Selecione UF"

ChildLabel ==
    IF tipo_dado = "Dados Empresa/Fazenda" THEN "Selecione Fazenda"
    ELSE "Selecione Municipio"

\* The child option list on the page (empty when no child selectbox is).
ChildOptions == widgets[ChildLabel].opts

Sel(a) ==
    CASE a = "UF" -> selected_uf
      [] a = "EMPRESA" -> selected_empresa
      [] a = "FAZENDA" -> selected_fazenda
      [] a = "MUNICIPIO" -> selected_municipio

\* The levels a mode selects on.
LevelsOf(m) ==
    CASE m = "Dados por Estado" -> {"UF"}
      [] m = "Dados por Empresa" -> {"EMPRESA"}
      [] m = "Dados Empresa/Fazenda" -> {"EMPRESA", "FAZENDA"}
      [] m = "Dados por Municipio" -> {"UF", "MUNICIPIO"}
      [] OTHER -> {}

\* The equality predicates of the current selection: one per level of the
\* mode that holds a value.
ActiveLevels == {a \in LevelsOf(tipo_dado) : Sel(a) # NULL}

Satisfies(r) == \A a \in ActiveLevels : r[a] = Sel(a)

\* The child values of the rows of parent p, read off the collection.
ChildValuesOf(p) ==
    {gdf[i][ChildCol] : i \in {j \in DOMAIN gdf : gdf[j][ParentCol] = p}}

NoNulls == \A i \in DOMAIN gdf : \A a \in Attrs : gdf[i][a] # NULL

----------------------------------------------------------------------------
(* Claims about the filter pass.                                           *)

\* C1: in every mode and after any sequence of selection events the feature
\* view holds exactly the rows of the collection that satisfy every active
\* equality predicate of the selection: no row of the view violates one, no
\* row satisfying all of them is missing once every level of the mode is
\* chosen, and in mode 'Todos os Dados' the view is the whole collection.
C1_ViewIsExactlyTheMatchingRows ==
    ~err =>
        /\ tipo_dado = "Todos os Dados" => gdf_filtered = gdf
        /\ \A i \in DOMAIN gdf_filtered : Satisfies(gdf_filtered[i])
        /\ ActiveLevels = LevelsOf(tipo_dado) =>
              gdf_filtered = SelectSeq(gdf, Satisfies)

\* C2: in the two-level modes, whenever the parent selection is undefined or
\* empty, or the child has not been chosen, no error is raised, the feature
\* view is empty and the child option list is empty.
C2_UndefinedLevelGivesEmptyView ==
    (TwoLevel /\ (~Truthy(ParentSel) \/ ChildSel = NULL)) =>
        /\ ~err
        /\ Len(gdf_filtered) = 0
        /\ Len(ChildOptions) = 0

\* C3: in the two-level modes, with parent value p selected, the child option
\* list on the page is the ascending list, without duplicates, of the child
\* values of the rows whose parent attribute is p.
C3_ChildOptionsOfSelectedParent ==
    (TwoLevel /\ ~err /\ ParentSel # NULL) =>
        ChildOptions = SortedAsc(ChildValuesOf(ParentSel))

Offered(a) ==
    IF a \notin LevelsOf(tipo_dado) THEN {}
    ELSE IF TwoLevel /\ a = ChildCol
         THEN (IF Truthy(ParentSel) THEN ChildValuesOf(ParentSel) ELSE {})
         ELSE Unique(gdf, a)

Recomputed(a) == IF Offered(a) = {} THEN Sel(a) = NULL ELSE Sel(a) \in Offered(a)

FeatureTerms ==
    IF TwoLevel /\ ~Truthy(ParentSel) THEN {} ELSE LevelsOf(tipo_dado)

C5_SamePredicateOnBothDatasets ==
    (~err /\ df_csv.loaded /\ \A a \in LevelsOf(tipo_dado) : Truthy(Sel(a))) =>
        /\ gdf_filtered =
              SelectSeq(gdf, LAMBDA r : \A a \in FeatureTerms : Eq(r[a], Sel(a)))
        /\ df_filtered_csv =
              SelectSeq(df_csv.rows,
                        LAMBDA r : \A a \in FeatureTerms \cap df_csv.cols :
                                       Eq(r[a], Sel(a)))

\* C10: for a non-empty collection without null attribute values the pass
\* raises nothing and the feature view is non-empty, in every mode.
C10_ViewNonEmpty ==
    (Len(gdf) > 0 /\ NoNulls) => ~err /\ Len(gdf_filtered) > 0

\* C10's case: a child was just chosen under a parent that does not own every
\* row, and the view is a non-empty proper part of the collection.
C10_Witness ==
    /\ TwoLevel
    /\ event = ChildLabel
    /\ NoNulls
    /\ Len(gdf_filtered) > 0
    /\ Len(gdf_filtered) < Len(gdf)

----------------------------------------------------------------------------
(* load_csv, lines 36-67.                                                  *)

\* encodings = ['utf-8', 'latin-1', 'iso-8859-1', 'cp1252', 'utf-16']
NumEncodings == 5

Encodings == 1 .. NumEncodings

\* sep=';' (line 45) and sep=',' (line 55)
Seps == {";", ","}

\* columns a trial may parse
MaxCols == 2

\* What one trial does on a given file: 0 when pd.read_csv or the clean-up
\* after it raises, else the number of columns of the frame it builds.
CsvInputs == [Encodings -> [Seps -> 0 .. MaxCols]]

\* None (lines 64, 67)
NoDf == [ok |-> FALSE, enc |-> 0, sep |-> "", ncols |-> 0]

\* The frame read under encoding e and separator sp.
Df(e, sp, n) == [ok |-> TRUE, enc |-> e, sep |-> sp, ncols |-> n]

RECURSIVE load_csv_from(_, _)
\* The loop of lines 42-61 from encoding e on: the semicolon trial returns
\* its frame unless it raised, then the comma trial likewise, then the next
\* encoding; lines 63-64 when the list is exhausted.
load_csv_from(t, e) ==
    IF e > NumEncodings THEN NoDf
    ELSE IF t[e][";"] # 0 THEN Df(e, ";", t[e][";"])
    ELSE IF t[e][","] # 0 THEN Df(e, ",", t[e][","])
    ELSE load_csv_from(t, e + 1)

load_csv(t) == load_csv_from(t, 1)

\* The variables of the filter pass, parked.
FilterIdle ==
    /\ gdf = <<>> /\ df_csv = NoCsv /\ tipo_dado = "idle" /\ widgets = NoWidgets
    /\ selected_uf = NULL /\ selected_empresa = NULL /\ selected_fazenda = NULL
    /\ selected_municipio = NULL /\ gdf_filtered = <<>> /\ df_filtered_csv = <<>>
    /\ err = FALSE /\ event = "idle"

InitCsv ==
    /\ trials \in CsvInputs
    /\ stage = "ready"
    /\ result = NoDf
    /\ FilterIdle
    /\ LoadIdle

\* load_csv(CSV_PATH) on the file described by `trials`.
CallLoadCsv ==
    /\ stage = "ready"
    /\ result' = load_csv(trials)
    /\ stage' = "done"
    /\ UNCHANGED <<trials, filterVars, loadVars>>

NextCsv == CallLoadCsv

SpecCsv == InitCsv /\ [][NextCsv]_vars

----------------------------------------------------------------------------
(* The loading section, lines 24-34 and 159-176.                           *)

\* The reference system a shapefile declares: none (no .prj), WGS84, a
\* projected system pyproj can transform, and one it cannot.
CRSs == {"none", "EPSG:4326", "EPSG:31982", "untransformable"}

MissingGeo == [exists |-> FALSE, readable |-> FALSE, crs |-> "none"]

\* Shape/Geo.shp: missing, or present and readable or not by gpd.read_file.
GeoFiles ==
    {MissingGeo} \cup [exists : {TRUE}, readable : BOOLEAN, crs : CRSs]

MissingCsv == [exists |-> FALSE, trials |-> [e \in Encodings |-> [sp \in Seps |-> 0]]]

\* Dados.csv: missing, or a file every encoding reads alike.
CsvFiles ==
    {MissingCsv}
        \cup {[exists |-> TRUE, trials |-> [e \in Encodings |-> o]] :
                 o \in [Seps -> 0 .. MaxCols]}

\* None (line 34)
NoGdf == [ok |-> FALSE, crs |-> "none", src |-> "none"]

\* A collection in reference system crs, read from a file declaring src.
Gdf(crs, src) == [ok |-> TRUE, crs |-> crs, src |-> src]

\* gdf.to_crs('EPSG:4326') raises on a collection without a CRS and on a
\* CRS it cannot transform.
to_crs_raises(crs) == crs \in {"none", "untransformable"}

\* load_shapefile without the reprojection of lines 29-30.
load_shapefile_as_read(f) ==
    IF ~f.readable THEN NoGdf ELSE Gdf(f.crs, f.crs)

\* Lines 25-34: read, reproject unless already WGS84, None on any exception.
load_shapefile(f) ==
    IF ~f.readable THEN NoGdf
    ELSE IF f.crs # "EPSG:4326"
         THEN (IF to_crs_raises(f.crs) THEN NoGdf ELSE Gdf("EPSG:4326", f.crs))
         ELSE Gdf(f.crs, f.crs)

\* Lines 77-82: a copy whose datetime columns are turned into strings; the
\* geometry column and the reference system are those of the argument.
convert_timestamps(df) == df

\* An st.cache_data entry: keyed by the path argument alone, so once filled
\* it answers every later call (lines 24, 36).
EmptyShpCache == [filled |-> FALSE, from |-> MissingGeo, value |-> NoGdf]

EmptyCsvCache == [filled |-> FALSE, value |-> NoDf]

\* The messages of a failed load: st.error at lines 160, 33 and 63/66.
Failures == {"geo_not_found", "shp_error", "csv_error"}

BlankPage == [kind |-> "blank", gdf |-> NoGdf, csv |-> NoDf, msgs |-> {}]

\* st.error followed by st.stop(): the pass renders the message alone.
ErrorPage(m) == [kind |-> "error", gdf |-> NoGdf, csv |-> NoDf, msgs |-> {m}]

\* One pass of the script, lines 159-176, and the page it builds from the
\* collection that reaches the filter and the tabs (lines 199-368).
RunScript ==
    /\ IF ~geoFile.exists
       THEN /\ page' = ErrorPage("geo_not_found")
            /\ UNCHANGED <<shpCache, csvCache>>
       ELSE LET shp == IF shpCache.filled THEN shpCache.value
                       ELSE load_shapefile(geoFile)
                csv == IF ~csvFile.exists THEN NoDf
                       ELSE IF csvCache.filled THEN csvCache.value
                       ELSE load_csv(csvFile.trials)
            IN /\ shpCache' = IF shpCache.filled THEN shpCache
                              ELSE [filled |-> TRUE, from |-> geoFile,
                                    value |-> shp]
               /\ IF ~shp.ok
                  THEN /\ page' = ErrorPage("shp_error")
                       /\ UNCHANGED csvCache
                  ELSE /\ csvCache' = IF csvFile.exists
                                      THEN [filled |-> TRUE, value |-> csv]
                                      ELSE csvCache
                       /\ page' = [kind |-> "data",
                                   gdf |-> convert_timestamps(shp),
                                   csv |-> IF csv.ok THEN convert_timestamps(csv)
                                           ELSE csv,
                                   msgs |-> IF ~csvFile.exists
                                            THEN {"csv_not_found"}
                                            ELSE IF ~csv.ok THEN {"csv_error"}
                                            ELSE {}]
    /\ UNCHANGED <<geoFile, csvFile, filterVars, csvVars>>

\* The files change on disk between two passes.
PutGeoFile ==
    /\ \E f \in GeoFiles \ {geoFile} : geoFile' = f
    /\ UNCHANGED <<csvFile, shpCache, csvCache, page, filterVars, csvVars>>

PutCsvFile ==
    /\ \E f \in CsvFiles \ {csvFile} : csvFile' = f
    /\ UNCHANGED <<geoFile, shpCache, csvCache, page, filterVars, csvVars>>

InitLoad ==
    /\ geoFile \in GeoFiles
    /\ csvFile \in CsvFiles
    /\ shpCache = EmptyShpCache
    /\ csvCache = EmptyCsvCache
    /\ page = BlankPage
    /\ FilterIdle
    /\ CsvIdle

NextLoad == RunScript \/ PutGeoFile \/ PutCsvFile

SpecLoad == InitLoad /\ [][NextLoad]_vars

----------------------------------------------------------------------------
(* Claims about loading.                                                   *)

TrialRank(x) == 2 * (x[1] - 1) + (IF x[2] = ";" THEN 1 ELSE 2)

\* The trials that parse without error into more than one column.
MultiColumn(t) == {x \in Encodings \X Seps : t[x[1]][x[2]] > 1}

FirstMultiColumn(t) ==
    CHOOSE x \in MultiColumn(t) :
        \A y \in MultiColumn(t) : TrialRank(x) <= TrialRank(y)

\* C6: load_csv returns the frame of the first trial, in the order encoding
\* by encoding and semicolon before comma, that parses without error into
\* more than one column; a trial that parses into one column is passed over.
C6_FirstMultiColumnTrialAccepted ==
    stage = "done" =>
        result = IF MultiColumn(trials) = {} THEN NoDf
                 ELSE LET x == FirstMultiColumn(trials)
                      IN Df(x[1], x[2], trials[x[1]][x[2]])

\* C7: every collection load_shapefile returns without error, and every
\* collection a pass hands to the filter and the tabs, is in EPSG:4326.
C7_LoadedCollectionIsWGS84 ==
    /\ (shpCache.filled /\ shpCache.value.ok) => shpCache.value.crs = "EPSG:4326"
    /\ page.kind = "data" => page.gdf.crs = "EPSG:4326"

\* C7's case: a file in a projected system was loaded and is on the page.
C7_Witness ==
    /\ page.kind = "data"
    /\ page.gdf.src = "EPSG:31982"
    /\ shpCache.from.crs = "EPSG:31982"

\* C8: the load of a readable dataset that declares no CRS ends with a
\* collection in EPSG:4326, not with a load failure.
C8_UndefinedCrsLoadsToWGS84 ==
    (shpCache.filled /\ shpCache.from.readable /\ shpCache.from.crs = "none") =>
        shpCache.value.ok /\ shpCache.value.crs = "EPSG:4326"

\* C9: a pass in which a load fails leaves the data on the page as it was.
C9_FailureKeepsDisplayedData ==
    [][(page.kind = "data" /\ page'.msgs \cap Failures # {}) =>
          (page'.gdf = page.gdf /\ page'.csv = page.csv)]_vars

====
